---- MODULE Spec2Model ----
(***************************************************************************)
(* Model of the AI controller (ai_controller.py) and of the trading        *)
(* controller (trading_controller.py) of the OpenBB CLI plugin.            *)
(*                                                                         *)
(* Strings are sequences of one-character strings, so that lower-casing,   *)
(* stripping, slicing, zero-padding and lexicographic comparison are       *)
(* computed as the code computes them.  A text is a sequence of tokens,    *)
(* the maximal runs of non-blank characters of the question.               *)
(*                                                                         *)
(* Every externally visible call of one command (position lookup, order    *)
(* request, LLM request, quote and chain queries, the confirmation prompt) *)
(* is appended, in program order, to the log of the command.               *)
(*                                                                         *)
(* The brokerage is the documented Alpaca REST API: an order request       *)
(* either returns an order object or fails with a RequestException; a      *)
(* position lookup either returns a position object or fails.              *)
(***************************************************************************)
EXTENDS Integers, Sequences, FiniteSets, TLC

VARIABLES
    provider,   \* self.provider
    hasKey,     \* whether self.api_key was set, i.e. a client was constructed
    pc,         \* "idle": at the menu; "done": a command has just returned
    cmd,        \* which method ran last
    arg,        \* its argument (the question text; <<>> when it takes none)
    log,        \* the external calls it made, in order
    ret,        \* what it returned
    planIn,     \* the trade plan it was given or received, <<>> when none
    planOut,    \* that trade plan as the command left it
    trading_result  \* call_chat's local: what handle_trading_command gave it

vars == <<provider, hasKey, pc, cmd, arg, log, ret, planIn, planOut, trading_result>>

-----------------------------------------------------------------------------
(* Characters and strings                                                  *)

LowerCase == <<"a","b","c","d","e","f","g","h","i","j","k","l","m",
               "n","o","p","q","r","s","t","u","v","w","x","y","z">>
UpperCase == <<"A","B","C","D","E","F","G","H","I","J","K","L","M",
               "N","O","P","Q","R","S","T","U","V","W","X","Y","Z">>
DigitChars == <<"0","1","2","3","4","5","6","7","8","9">>

Range(s) == {s[i] : i \in 1..Len(s)}

IndexOf(c, s) == CHOOSE i \in 1..Len(s) : s[i] = c

IsDigit(c) == c \in Range(DigitChars)
IsLetter(c) == c \in Range(LowerCase) \/ c \in Range(UpperCase)

DigitVal(c) == IndexOf(c, DigitChars) - 1

LowerChar(c) == IF c \in Range(UpperCase) THEN LowerCase[IndexOf(c, UpperCase)] ELSE c
UpperChar(c) == IF c \in Range(LowerCase) THEN UpperCase[IndexOf(c, LowerCase)] ELSE c

\* str.lower() and str.upper()
Lower(s) == [i \in 1..Len(s) |-> LowerChar(s[i])]
Upper(s) == [i \in 1..Len(s) |-> UpperChar(s[i])]

\* str.isdigit(): non-empty and all digits
IsDigits(s) == Len(s) > 0 /\ \A i \in 1..Len(s) : IsDigit(s[i])
IsLetters(s) == Len(s) > 0 /\ \A i \in 1..Len(s) : IsLetter(s[i])

\* int() of a digit string
RECURSIVE ToInt(_)
ToInt(s) == IF Len(s) = 0 THEN 0
            ELSE 10 * ToInt(SubSeq(s, 1, Len(s) - 1)) + DigitVal(s[Len(s)])

\* the longest prefix of letters: what ([A-Za-z]+) matches at the start of a token
RECURSIVE LetterPrefix(_)
LetterPrefix(s) == IF Len(s) = 0 \/ ~IsLetter(s[1]) THEN <<>>
                   ELSE <<s[1]>> \o LetterPrefix(Tail(s))

\* str.strip(): blanks are cut from both ends
Whitespace == {" ", "\t"}

RECURSIVE StripLeft(_)
StripLeft(s) == IF Len(s) > 0 /\ s[1] \in Whitespace THEN StripLeft(Tail(s)) ELSE s

RECURSIVE StripRight(_)
StripRight(s) ==
    IF Len(s) > 0 /\ s[Len(s)] \in Whitespace THEN StripRight(SubSeq(s, 1, Len(s) - 1)) ELSE s

Strip(s) == StripRight(StripLeft(s))

StartsWith(s, p) == Len(s) >= Len(p) /\ SubSeq(s, 1, Len(p)) = p
EndsWith(s, p) == Len(s) >= Len(p) /\ SubSeq(s, Len(s) - Len(p) + 1, Len(s)) = p

-----------------------------------------------------------------------------
(* parse_trading_command                                                   *)

\* company_to_ticker, as a set of <<name, ticker>> pairs
company_to_ticker ==
    { <<<<"a","p","p","l","e">>, <<"A","A","P","L">>>>,
      <<<<"m","i","c","r","o","s","o","f","t">>, <<"M","S","F","T">>>>,
      <<<<"g","o","o","g","l","e">>, <<"G","O","O","G","L">>>>,
      <<<<"a","l","p","h","a","b","e","t">>, <<"G","O","O","G","L">>>>,
      <<<<"a","m","a","z","o","n">>, <<"A","M","Z","N">>>>,
      <<<<"m","e","t","a">>, <<"M","E","T","A">>>>,
      <<<<"f","a","c","e","b","o","o","k">>, <<"M","E","T","A">>>>,
      <<<<"n","e","t","f","l","i","x">>, <<"N","F","L","X">>>>,
      <<<<"t","e","s","l","a">>, <<"T","S","L","A">>>>,
      <<<<"n","v","i","d","i","a">>, <<"N","V","D","A">>>>,
      <<<<"a","m","d">>, <<"A","M","D">>>>,
      <<<<"i","n","t","e","l">>, <<"I","N","T","C">>>> }

\* company_to_ticker.get(symbol, symbol.upper())
TickerOf(symbol) ==
    IF \E p \in company_to_ticker : p[1] = symbol
    THEN (CHOOSE p \in company_to_ticker : p[1] = symbol)[2]
    ELSE Upper(symbol)

BuyVerbs == { <<"b","u","y">>, <<"p","u","r","c","h","a","s","e">>, <<"l","o","n","g">> }
SellVerbs == { <<"s","e","l","l">>, <<"s","h","o","r","t">> }
ShareWords == { <<"s","h","a","r","e">>, <<"s","h","a","r","e","s">> }

\* text.lower(), token by token
TextLower(text) == [i \in 1..Len(text) |-> Lower(text[i])]

\* (?:buy|purchase|long)\s+ : the verb ends a token (the pattern has no \b before it)
EndsWithVerb(tok, verbs) == \E v \in verbs : EndsWith(tok, v)

\* Group 2 of the first pattern, with the verb in token i and the digits in token i+1:
\* (?:share(?:s)?\s+(?:of\s+)?)?([A-Za-z]+), greedy with backtracking.
Pattern1Symbol(t, i) ==
    LET n == Len(t)
        plain == IF i + 2 <= n THEN LetterPrefix(t[i + 2]) ELSE <<>>
        afterShare == IF i + 3 <= n THEN LetterPrefix(t[i + 3]) ELSE <<>>
        afterOf == IF i + 4 <= n THEN LetterPrefix(t[i + 4]) ELSE <<>>
    IN IF i + 3 <= n /\ t[i + 2] \in ShareWords
       THEN IF t[i + 3] = <<"o","f">> /\ Len(afterOf) > 0 THEN afterOf
            ELSE IF Len(afterShare) > 0 THEN afterShare
            ELSE plain
       ELSE plain

\* verb\s+(\d+)\s+(?:share(?:s)?\s+(?:of\s+)?)?([A-Za-z]+)(?:\s+share(?:s)?)?
Match1(t, i, verbs) ==
    /\ i + 2 <= Len(t)
    /\ EndsWithVerb(t[i], verbs)
    /\ IsDigits(t[i + 1])
    /\ Len(Pattern1Symbol(t, i)) > 0

\* verb\s+([A-Za-z]+)\s+(\d+)\s+share(?:s)?
Match2(t, i, verbs) ==
    /\ i + 3 <= Len(t)
    /\ EndsWithVerb(t[i], verbs)
    /\ IsLetters(t[i + 1])
    /\ IsDigits(t[i + 2])
    /\ StartsWith(t[i + 3], <<"s","h","a","r","e">>)

\* the least of a non-empty set of indices
Least(S) == CHOOSE i \in S : \A j \in S : i <= j

\* re.search: the groups of the leftmost match, <<>> when there is none
Groups1(t, hits) ==
    IF hits = {} THEN <<>> ELSE <<t[Least(hits) + 1], Pattern1Symbol(t, Least(hits))>>

Search1(t, verbs) == Groups1(t, {i \in 1..Len(t) : Match1(t, i, verbs)})

Groups2(t, hits) ==
    IF hits = {} THEN <<>> ELSE <<t[Least(hits) + 1], t[Least(hits) + 2]>>

Search2(t, verbs) == Groups2(t, {i \in 1..Len(t) : Match2(t, i, verbs)})

\* a if it is not empty, else b
OrElse(a, b) == IF Len(a) > 0 THEN a ELSE b

\* qty, symbol = groups if groups[0].isdigit() else (groups[1], groups[0]);
\* symbol = company_to_ticker.get(symbol.strip().lower(), ...); return (side, symbol, int(qty));
\* <<>> when no pattern matched
CommandOf(side, groups) ==
    IF Len(groups) = 0 THEN <<>>
    ELSE <<side,
           TickerOf(Lower(IF IsDigits(groups[1]) THEN groups[2] ELSE groups[1])),
           ToInt(IF IsDigits(groups[1]) THEN groups[1] ELSE groups[2])>>

\* for pattern in patterns: the first pattern with a match decides
TryPatterns(t, verbs, side) == CommandOf(side, OrElse(Search1(t, verbs), Search2(t, verbs)))

\* a parser that tries the sell patterns before the buy patterns
parse_trading_command_SellFirst(text) ==
    OrElse(TryPatterns(TextLower(text), SellVerbs, "sell"),
           TryPatterns(TextLower(text), BuyVerbs, "buy"))

\* Lines 128-154: the buy patterns are tried first, then the sell patterns.
\* None is <<>>; otherwise <<action, symbol, quantity>>
parse_trading_command(text) ==
    OrElse(TryPatterns(TextLower(text), BuyVerbs, "buy"),
           TryPatterns(TextLower(text), SellVerbs, "sell"))

-----------------------------------------------------------------------------
(* The questions a user may type                                           *)

\* "buy 5 shares of apple"
\* "sell 5 apple"
\* "Sell 3 shares of TSLA"
\* "sell aapl 2 shares"
\* "please short 1 share of nvda."
\* "purchase msft 2 shares"
\* "sell 5 apple and buy 2 msft"
\* "what is the outlook for tech"
\* "sell my apple shares"
\* "sell 4 shares"
Texts ==
    { << <<"b","u","y">>, <<"5">>, <<"s","h","a","r","e","s">>, <<"o","f">>, <<"a","p","p","l","e">> >>,
      << <<"s","e","l","l">>, <<"5">>, <<"a","p","p","l","e">> >>,
      << <<"S","e","l","l">>, <<"3">>, <<"s","h","a","r","e","s">>, <<"o","f">>, <<"T","S","L","A">> >>,
      << <<"s","e","l","l">>, <<"a","a","p","l">>, <<"2">>, <<"s","h","a","r","e","s">> >>,
      << <<"p","l","e","a","s","e">>, <<"s","h","o","r","t">>, <<"1">>, <<"s","h","a","r","e">>, <<"o","f">>, <<"n","v","d","a",".">> >>,
      << <<"p","u","r","c","h","a","s","e">>, <<"m","s","f","t">>, <<"2">>, <<"s","h","a","r","e","s">> >>,
      << <<"s","e","l","l">>, <<"5">>, <<"a","p","p","l","e">>, <<"a","n","d">>, <<"b","u","y">>, <<"2">>, <<"m","s","f","t">> >>,
      << <<"w","h","a","t">>, <<"i","s">>, <<"t","h","e">>, <<"o","u","t","l","o","o","k">>, <<"f","o","r">>, <<"t","e","c","h">> >>,
      << <<"s","e","l","l">>, <<"m","y">>, <<"a","p","p","l","e">>, <<"s","h","a","r","e","s">> >>,
      << <<"s","e","l","l">>, <<"4">>, <<"s","h","a","r","e","s">> >> }

\* further texts for the parser alone:
\* "buy 3 google", "long 2 shares of alphabet", "short facebook 4 shares",
\* "buy 1 meta shares", "purchase 12 Amazon", "sell 7 shares of", "buy apple"
ParseTexts ==
    Texts \cup
    { << <<"b","u","y">>, <<"3">>, <<"g","o","o","g","l","e">> >>,
      << <<"l","o","n","g">>, <<"2">>, <<"s","h","a","r","e","s">>, <<"o","f">>, <<"a","l","p","h","a","b","e","t">> >>,
      << <<"s","h","o","r","t">>, <<"f","a","c","e","b","o","o","k">>, <<"4">>, <<"s","h","a","r","e","s">> >>,
      << <<"b","u","y">>, <<"1">>, <<"m","e","t","a">>, <<"s","h","a","r","e","s">> >>,
      << <<"p","u","r","c","h","a","s","e">>, <<"1","2">>, <<"A","m","a","z","o","n">> >>,
      << <<"s","e","l","l">>, <<"7">>, <<"s","h","a","r","e","s">>, <<"o","f">> >>,
      << <<"b","u","y">>, <<"a","p","p","l","e">> >> }

\* parse_trading_command of each question, computed once
ParsedCommand == [t \in Texts |-> parse_trading_command(t)]

-----------------------------------------------------------------------------
(* Values returned by the methods: a tag and a payload                     *)

None == [tag |-> "None", val |-> ""]
OrderData(status) == [tag |-> "order", val |-> status]     \* response.json() of an order
ErrorDict(msg) == [tag |-> "error", val |-> msg]           \* {"error": msg}
Raised(exc) == [tag |-> "raise", val |-> exc]              \* the call raised exc
Text(str) == [tag |-> "text", val |-> str]                 \* a str
Bool(b) == [tag |-> "bool", val |-> IF b THEN "True" ELSE "False"]
Triple(t) == [tag |-> "tuple", val |-> t]                  \* (action, symbol, quantity)

\* a truth value that takes an error record for nothing
TruthyUnlessError(r) == r.tag = "order"

\* Python truth value of a returned value
Truthy(r) ==
    CASE r.tag = "None" -> FALSE
      [] r.tag = "text" -> r.val # ""
      [] r.tag = "bool" -> r.val = "True"
      [] OTHER -> TRUE       \* a non-empty dict

-----------------------------------------------------------------------------
(* TradingController                                                       *)

\* How the brokerage answers an order request:
\*   accepted, pending_new: 2xx with the order object, its status as named;
\*   rejected:    4xx/5xx whose body is JSON with a message;
\*   unreachable: no response (connection error, timeout): e.response is None;
\*   bad_body:    4xx/5xx whose body is not JSON: e.response.json() raises
\*                inside the except block.
OrderOutcomes == {"accepted", "pending_new", "rejected", "unreachable", "bad_body"}

\* What a position lookup gives: None (404, or the request failed), or the position
\* with its quantity.  Quantities are counted in half shares (Alpaca holds
\* fractional shares, and a short position has a negative quantity).
MaxHeld == 5
NoPosition == [found |-> FALSE, halves |-> 0]
Positions == {NoPosition} \cup {[found |-> TRUE, halves |-> h] : h \in (-2)..(2 * MaxHeld)}

\* get_position: the lookup and what it returned
get_position(symbol, pos) ==
    [ret |-> pos,
     log |-> <<[e |-> "get_position", symbol |-> symbol,
                found |-> pos.found, halves |-> pos.halves]>>]

\* a place_order whose orders stay open until cancelled
place_order_GoodTillCancelled(symbol, qty, side, outcome) ==
    [ret |-> CASE outcome \in {"accepted", "pending_new"} -> OrderData(outcome)
               [] outcome = "rejected" -> ErrorDict("Error placing order: message")
               [] outcome = "unreachable" -> ErrorDict("Error placing order: str(e)")
               [] outcome = "bad_body" -> Raised("JSONDecodeError"),
     log |-> <<[e |-> "place_order", symbol |-> symbol, qty |-> qty, side |-> side,
                type |-> "market", time_in_force |-> "gtc", outcome |-> outcome]>>]

\* a place_order that answers None whenever the request fails
place_order_NoneOnFailure(symbol, qty, side, outcome) ==
    [ret |-> IF outcome \in {"accepted", "pending_new"} THEN OrderData(outcome) ELSE None,
     log |-> <<[e |-> "place_order", symbol |-> symbol, qty |-> qty, side |-> side,
                type |-> "market", time_in_force |-> "day", outcome |-> outcome]>>]

\* place_order: one POST /orders with the defaults type="market", time_in_force="day"
place_order(symbol, qty, side, outcome) ==
    [ret |-> CASE outcome \in {"accepted", "pending_new"} -> OrderData(outcome)
               [] outcome = "rejected" -> ErrorDict("Error placing order: message")
               [] outcome = "unreachable" -> ErrorDict("Error placing order: str(e)")
               [] outcome = "bad_body" -> Raised("JSONDecodeError"),
     log |-> <<[e |-> "place_order", symbol |-> symbol, qty |-> qty, side |-> side,
                type |-> "market", time_in_force |-> "day", outcome |-> outcome]>>]

-----------------------------------------------------------------------------
(* AIController.handle_trading_command                                     *)

\* a comparison that also turns away a holding equal to the quantity asked
InsufficientOrEqual(pos, qty) == pos.halves <= 2 * qty

\* current_qty < qty, with current_qty = float(position.get("qty", 0))
Insufficient(pos, qty) == pos.halves < 2 * qty

\* env.position: what the position lookup gives; env.orders[k]: how the brokerage
\* answers the k-th order request of the command
handle_trading_command(text, env) ==
    LET Handle(trading_command) ==
            IF Len(trading_command) = 0 THEN [ret |-> None, log |-> <<>>]
            ELSE LET side == trading_command[1]
                     symbol == trading_command[2]
                     qty == trading_command[3]
                     look == get_position(symbol, env.position)
                     order == place_order(symbol, qty, side, env.orders[1])
                 IN IF side = "sell"
                    THEN IF ~look.ret.found THEN [ret |-> None, log |-> look.log]
                         ELSE IF Insufficient(look.ret, qty) THEN [ret |-> None, log |-> look.log]
                         ELSE [ret |-> order.ret, log |-> look.log \o order.log]
                    ELSE order
    IN Handle(ParsedCommand[text])

-----------------------------------------------------------------------------
(* IEEE-754 double arithmetic, as far as int(strike * 1000) needs it       *)
(*                                                                         *)
(* A price is held as its number of thousandths m, and stands for the      *)
(* double nearest to m/1000 (what float() gives for the decimal).  Bit     *)
(* strings are sequences of 0 and 1, most significant bit first.           *)

MantissaBits == 53
LimbBits == 18          \* arithmetic is done on limbs of 18 bits, to stay within 32 bits
WholeBits == 27         \* the whole part of a price in thousandths fits 27 bits

LimbBase == 2 ^ LimbBits

\* the w low bits of n
BitsOfWidth(n, w) == [i \in 1..w |-> (n \div (2 ^ (w - i))) % 2]

RECURSIVE ValOf(_)
ValOf(b) == IF Len(b) = 0 THEN 0 ELSE 2 * ValOf(SubSeq(b, 1, Len(b) - 1)) + b[Len(b)]

\* the index of the first one bit of b
LeadingOne(b) == CHOOSE i \in 1..Len(b) : b[i] = 1 /\ \A j \in 1..(i - 1) : b[j] = 0

\* b + 1; one bit longer when b is all ones
Increment(b) ==
    IF \A i \in 1..Len(b) : b[i] = 1 THEN <<1>> \o [i \in 1..Len(b) |-> 0]
    ELSE LET k == CHOOSE i \in 1..Len(b) : b[i] = 0 /\ \A j \in (i + 1)..Len(b) : b[j] = 1
         IN [i \in 1..Len(b) |-> IF i < k THEN b[i] ELSE IF i = k THEN 1 ELSE 0]

\* Round to nearest, ties to even: b (more than MantissaBits bits, the first a one),
\* with a sticky flag for what lies below it, to MantissaBits bits; drop counts the
\* bits dropped.
RoundNearestEven(b, sticky) ==
    LET kept == SubSeq(b, 1, MantissaBits)
        guard == b[MantissaBits + 1]
        below == sticky \/ \E i \in (MantissaBits + 2)..Len(b) : b[i] = 1
        up == guard = 1 /\ (below \/ kept[MantissaBits] = 1)
        inc == Increment(kept)
    IN IF ~up THEN [bits |-> kept, drop |-> Len(b) - MantissaBits]
       ELSE IF Len(inc) = MantissaBits THEN [bits |-> inc, drop |-> Len(b) - MantissaBits]
       ELSE [bits |-> SubSeq(inc, 1, MantissaBits), drop |-> Len(b) - MantissaBits + 1]

\* b from its first one bit on
Normalised(b) == SubSeq(b, LeadingOne(b), Len(b))

\* Long division: k limbs of the expansion of r/den after the binary point (r < den),
\* and whether a remainder is left after them
RECURSIVE Expand(_, _, _)
Expand(r, den, k) ==
    IF k = 0 THEN [bits |-> <<>>, rest |-> r # 0]
    ELSE [bits |-> BitsOfWidth((r * LimbBase) \div den, LimbBits)
                   \o Expand((r * LimbBase) % den, den, k - 1).bits,
          rest |-> Expand((r * LimbBase) % den, den, k - 1).rest]

FracLimbs == 4

\* The double nearest to n/den (0 < n < den * 2^WholeBits, den < 2^10): its mantissa,
\* and frac, the number of mantissa bits that lie after the binary point.  The
\* quotient is expanded by long division to FracLimbs limbs after the point.
DoubleOfRatio(n, den) ==
    LET Pack(r) == [bits |-> r.bits, frac |-> FracLimbs * LimbBits - r.drop]
    IN Pack(RoundNearestEven(
              Normalised(BitsOfWidth(n \div den, WholeBits) \o Expand(n % den, den, FracLimbs).bits),
              Expand(n % den, den, FracLimbs).rest))

\* mantissa * c (c < 2^10), exactly, as a bit string: three limbs times c with carries
MulSmall(mantissa, c) ==
    LET b == <<0>> \o mantissa
        a1 == ValOf(SubSeq(b, 1, LimbBits))
        a2 == ValOf(SubSeq(b, LimbBits + 1, 2 * LimbBits))
        a3 == ValOf(SubSeq(b, 2 * LimbBits + 1, 3 * LimbBits))
        t3 == a3 * c
        t2 == a2 * c + t3 \div LimbBase
        t1 == a1 * c + t2 \div LimbBase
    IN BitsOfWidth(t1 \div LimbBase, LimbBits) \o BitsOfWidth(t1 % LimbBase, LimbBits)
       \o BitsOfWidth(t2 % LimbBase, LimbBits) \o BitsOfWidth(t3 % LimbBase, LimbBits)

\* int() of the double with mantissa y.bits of which frac bits lie after the point
Truncated(y, frac) ==
    IF frac >= MantissaBits THEN 0 ELSE ValOf(SubSeq(y.bits, 1, MantissaBits - frac))

\* x * 1000 rounded to a double, then truncated
TimesThousandTrunc(x) ==
    LET Trunc(y) == Truncated(y, x.frac - y.drop)
    IN Trunc(RoundNearestEven(Normalised(MulSmall(x.bits, 1000)), FALSE))

\* int(float(m/1000) * 1000): the product is rounded to a double, then truncated
FloatTimes1000Trunc(m) ==
    IF m = 0 THEN 0 ELSE TimesThousandTrunc(DoubleOfRatio(m, 1000))

-----------------------------------------------------------------------------
(* Dates, as the strings the code slices and compares                      *)

\* s[a-1:b] of Python: a slice never fails, it is cut at the end of the string
Slice(s, a, b) == SubSeq(s, a, IF b < Len(s) THEN b ELSE Len(s))

\* the order of the characters of a date: "-" sorts before the digits
Ord(c) == IndexOf(c, <<"-">> \o DigitChars)

\* a < b for strings
RECURSIVE StrLess(_, _)
StrLess(a, b) ==
    IF Len(b) = 0 THEN FALSE
    ELSE IF Len(a) = 0 THEN TRUE
    ELSE IF a[1] # b[1] THEN Ord(a[1]) < Ord(b[1])
    ELSE StrLess(Tail(a), Tail(b))

\* f"20{t[:2]}-{t[2:4]}-{t[4:]}": YYMMDD to YYYY-MM-DD
FullDate(t) ==
    <<"2", "0">> \o Slice(t, 1, 2) \o <<"-">> \o Slice(t, 3, 4) \o <<"-">> \o Slice(t, 5, Len(t))

\* f[2:4] + f[5:7] + f[8:10]: YYYY-MM-DD to YYMMDD
ShortDate(f) == Slice(f, 3, 4) \o Slice(f, 6, 7) \o Slice(f, 9, 10)

\* sorted(...)[0] of a non-empty set of strings
FirstSorted(S) == CHOOSE x \in S : \A y \in S : ~StrLess(y, x)

-----------------------------------------------------------------------------
(* Market data: quotes and option chains                                   *)

\* get_stock_price: None, or the price (in thousandths)
NoPrice == [ok |-> FALSE, price |-> 0]
Prices == {NoPrice, [ok |-> TRUE, price |-> 150250]}

ChainExpiries ==
    { <<"2","0","2","5","-","0","1","-","1","7">>,      \* 2025-01-17
      <<"2","0","2","5","-","0","2","-","2","1">> }     \* 2025-02-21
ChainTypes == {"calls", "puts"}
ChainStrikes == {32300, 95000, 100000}      \* 32.3, 95 and 100 dollars

\* the rows a chain may hold: one contract per expiry, type and strike
ChainRows ==
    {[expiration |-> x, type |-> t, strike |-> k, last_price |-> 1250] :
        x \in ChainExpiries, t \in ChainTypes, k \in ChainStrikes}

MaxRows == 2

\* get_option_chain: None (no data, or the request failed), or the chain's rows
NoChain == [ok |-> FALSE, rows |-> {}]
Chains ==
    {NoChain} \cup {[ok |-> TRUE, rows |-> R] : R \in {Q \in SUBSET ChainRows : Cardinality(Q) <= MaxRows}}

\* get_stock_price: the quote request, and the price or None
get_stock_price(symbol, price) ==
    [ret |-> price,
     log |-> <<[e |-> "quote", symbol |-> symbol, ok |-> price.ok, price |-> price.price]>>]

\* get_option_chain: the chain request, and the chain or None
get_option_chain(symbol, chain) ==
    [ret |-> chain,
     log |-> <<[e |-> "chains", symbol |-> symbol, ok |-> chain.ok, rows |-> chain.rows]>>]

-----------------------------------------------------------------------------
(* Trade plans                                                             *)

\* A trade plan is a dict: keys holds the keys that are present, and a field whose
\* key is absent holds a filler.
StockPlan(action, symbol, quantity) ==
    [keys |-> {"type", "action", "symbol", "quantity", "reasoning"},
     type |-> "stock", action |-> action, symbol |-> symbol, quantity |-> quantity,
     strike |-> 0, expiry |-> <<>>,
     current_price |-> 0, current_stock_price |-> 0, option_price |-> 0]

OptionPlan(action, symbol, quantity, strike, expiry) ==
    [keys |-> {"type", "action", "symbol", "quantity", "reasoning", "strike", "expiry"},
     type |-> "option", action |-> action, symbol |-> symbol, quantity |-> quantity,
     strike |-> strike, expiry |-> expiry,
     current_price |-> 0, current_stock_price |-> 0, option_price |-> 0]

Without(plan, key) == [plan EXCEPT !.keys = @ \ {key}]

-----------------------------------------------------------------------------
(* The trade plans and market data of the model                            *)

AAPL == <<"A","A","P","L">>

MaxQuantity == 2

TargetStrikes == {32300, 96000, 97500}      \* 97.5 lies midway between 95 and 100
TargetExpiries == { <<"2","5","0","1","0","1">>, <<"2","5","0","1","1","7">>, <<"2","5","0","2","0","1">>, <<"2","5","0","3","0","1">> }

StockPlans == {StockPlan(a, AAPL, q) : a \in {"buy", "sell"}, q \in 1..MaxQuantity}
OptionPlans ==
    {OptionPlan(a, AAPL, 1, k, x) : a \in {"buy", "sell"}, k \in TargetStrikes, x \in TargetExpiries}
DefectivePlans ==
    { Without(StockPlan("buy", AAPL, 1), "quantity"),
      Without(StockPlan("buy", AAPL, 1), "type"),
      Without(OptionPlan("sell", AAPL, 1, 96000, <<"2","5","0","1","1","7">>), "expiry") }
Plans == StockPlans \cup OptionPlans \cup DefectivePlans

-----------------------------------------------------------------------------
(* AIController.validate_and_enrich_trade_plan                             *)

Abs(x) == IF x < 0 THEN -x ELSE x

\* the nearest strike at or above the target instead of the nearest strike
ClosestStrikeAbove(available, target) ==
    IF \E x \in available : x >= target
    THEN CHOOSE x \in available : x >= target /\ \A y \in available : y >= target => x <= y
    ELSE CHOOSE x \in available : \A y \in available : y <= x

\* min(sorted(available), key=lambda x: abs(float(x) - target)): the least distance,
\* and among equals the first in ascending order
ClosestStrike(available, target) ==
    CHOOSE x \in available :
        \A y \in available :
            \/ Abs(x - target) < Abs(y - target)
            \/ (Abs(x - target) = Abs(y - target) /\ x <= y)

\* the first listed expiry, whatever the target
ResolveExpiryFirst(rows, target_expiry_full) ==
    LET all == {r.expiration : r \in rows}
    IN IF all = {} THEN <<>> ELSE FirstSorted(all)

\* Lines 319-327: the target if the chain lists it, else the first listed expiry
\* that is not before it; <<>> when there is none.
ResolveExpiry(rows, target_expiry_full) ==
    IF \E r \in rows : r.expiration = target_expiry_full THEN target_expiry_full
    ELSE LET valid_expiries == {r.expiration : r \in {q \in rows : ~StrLess(q.expiration, target_expiry_full)}}
         IN IF valid_expiries = {} THEN <<>> ELSE FirstSorted(valid_expiries)

\* is_put = action == "buy"; option_type = "puts" if is_put else "calls"
OptionTypeOf(action) == IF action = "buy" THEN "puts" ELSE "calls"

Failed(plan, err, l) == [ok |-> FALSE, plan |-> plan, err |-> err, log |-> l]

\* Lines 341-365: the strike is replaced by the closest one of the chain, and the
\* plan is completed (strike_chain is never empty: closest_strike is one of its strikes)
EnrichStrike(trade_plan, current_price, type_chain, new_expiry, closest_strike, l) ==
    [ok |-> TRUE,
     plan |-> [trade_plan EXCEPT
                  !.keys = @ \cup {"current_stock_price", "option_price"},
                  !.strike = closest_strike,
                  !.expiry = new_expiry,
                  !.current_stock_price = current_price,
                  !.option_price =
                      (CHOOSE r \in {q \in type_chain : q.strike = closest_strike} : TRUE).last_price],
     err |-> "", log |-> l]

\* an enrichment that writes the resolved expiry into the plan before it looks
\* for the rows of the option type
EnrichTypeAfterWrite(trade_plan, current_price, type_chain, new_expiry, l) ==
    IF type_chain = {}
    THEN Failed([trade_plan EXCEPT !.expiry = new_expiry], "ValueError: No puts/calls found", l)
    ELSE IF "strike" \notin trade_plan.keys
    THEN Failed([trade_plan EXCEPT !.expiry = new_expiry], "KeyError: strike", l)
    ELSE EnrichStrike(trade_plan, current_price, type_chain, new_expiry,
                      ClosestStrike({r.strike : r \in type_chain}, trade_plan.strike), l)

\* Lines 333-343: the rows of the option type, and the closest strike among them
EnrichType(trade_plan, current_price, type_chain, new_expiry, l) ==
    IF type_chain = {} THEN Failed(trade_plan, "ValueError: No puts/calls found", l)
    ELSE IF "strike" \notin trade_plan.keys THEN Failed(trade_plan, "KeyError: strike", l)
    ELSE EnrichStrike(trade_plan, current_price, type_chain, new_expiry,
                      ClosestStrike({r.strike : r \in type_chain}, trade_plan.strike), l)

\* Lines 319-335: the resolved expiry selects the rows, and is written back as YYMMDD
EnrichExpiry(trade_plan, current_price, rows, target_expiry_full, l) ==
    IF Len(target_expiry_full) = 0
    THEN Failed(trade_plan, "ValueError: No valid expiration dates found", l)
    ELSE IF "action" \notin trade_plan.keys THEN Failed(trade_plan, "KeyError: action", l)
    ELSE EnrichType(trade_plan, current_price,
                    {r \in rows : /\ r.expiration = target_expiry_full
                                  /\ r.type = OptionTypeOf(trade_plan.action)},
                    ShortDate(target_expiry_full), l)

\* The option branch, lines 307-365, after the price was fetched
EnrichOption(trade_plan, current_price, chain, l) ==
    IF ~chain.ok THEN Failed(trade_plan, "ValueError: Could not fetch options data", l)
    ELSE IF "expiry" \notin trade_plan.keys THEN Failed(trade_plan, "KeyError: expiry", l)
    ELSE EnrichExpiry(trade_plan, current_price, chain.rows,
                      ResolveExpiry(chain.rows, FullDate(trade_plan.expiry)), l)

\* env.price: what the quote gives; env.chain: what the chain request gives
validate_and_enrich_trade_plan(trade_plan, env) ==
    IF "symbol" \notin trade_plan.keys THEN Failed(trade_plan, "KeyError: symbol", <<>>)
    ELSE LET quote == get_stock_price(trade_plan.symbol, env.price)
             chains == get_option_chain(trade_plan.symbol, env.chain)
         IN IF ~quote.ret.ok
            THEN Failed(trade_plan, "ValueError: Could not fetch current price", quote.log)
            ELSE IF "type" \notin trade_plan.keys
            THEN Failed(trade_plan, "KeyError: type", quote.log)
            ELSE IF trade_plan.type = "stock"
            THEN [ok |-> TRUE,
                  plan |-> [trade_plan EXCEPT !.keys = @ \cup {"current_price"},
                                              !.current_price = quote.ret.price],
                  err |-> "", log |-> quote.log]
            ELSE EnrichOption(trade_plan, quote.ret.price, chains.ret, quote.log \o chains.log)

-----------------------------------------------------------------------------
(* AIController.execute_trade_plan                                         *)

StrikeWidth == 8

\* str(n) for n >= 0
RECURSIVE DecimalDigits(_)
DecimalDigits(n) ==
    IF n < 10 THEN <<DigitChars[n + 1]>>
    ELSE DecimalDigits(n \div 10) \o <<DigitChars[(n % 10) + 1]>>

\* f"{n:08d}": zeros on the left up to the width, nothing cut off
ZeroPad(n, width) ==
    LET d == DecimalDigits(n)
    IN [i \in 1..(IF Len(d) < width THEN width - Len(d) ELSE 0) |-> "0"] \o d

\* int(float(strike) * 1000) of each strike a plan or a chain may hold, computed once
StrikeInt == [k \in ChainStrikes \cup TargetStrikes |-> FloatTimes1000Trunc(k)]

\* the strike field of the symbol: strike_int padded to 8 digits
StrikeField(strike) == ZeroPad(StrikeInt[strike], StrikeWidth)

\* a flag that names a call for a buy and a put otherwise
OptionFlagCallOnBuy(action) == IF action = "buy" THEN "C" ELSE "P"

\* "P" if action == "buy" else "C"
OptionFlag(action) == IF action = "buy" THEN "P" ELSE "C"

\* f"{symbol}{expiry}{option_type}{strike_padded}"
OptionSymbol(plan) ==
    plan.symbol \o plan.expiry \o <<OptionFlag(plan.action)>> \o StrikeField(plan.strike)

\* a result that looks only at whether the request went through
ResultIgnoringError(order) == Bool(order.ret.tag # "raise")

\* not bool(result.get("error")); an exception of place_order is caught: False
ResultOf(order) == Bool(order.ret.tag \notin {"error", "raise"})

\* an order of one share, whatever quantity the plan names
PlaceEnrichedOneShare(enriched_plan, outcome) ==
    IF enriched_plan.type = "stock"
    THEN place_order(enriched_plan.symbol, 1, enriched_plan.action, outcome)
    ELSE place_order(OptionSymbol(enriched_plan), 1, enriched_plan.action, outcome)

\* Lines 380-409: the order of an enriched plan.  outcome: how the brokerage answers
PlaceEnriched(enriched_plan, outcome) ==
    IF enriched_plan.type = "stock"
    THEN place_order(enriched_plan.symbol, enriched_plan.quantity, enriched_plan.action, outcome)
    ELSE place_order(OptionSymbol(enriched_plan), enriched_plan.quantity,
                     enriched_plan.action, outcome)

\* an execution that sends the order whether or not the enrichment went through
ExecuteEnrichedRegardless(v, order) ==
    IF ~({"symbol", "quantity", "action"} \subseteq v.plan.keys)
    THEN [ret |-> Bool(FALSE), log |-> v.log, plan |-> v.plan]
    ELSE [ret |-> ResultOf(order), log |-> v.log \o order.log, plan |-> v.plan]

\* v: what validate_and_enrich_trade_plan gave; order: the order of its plan
ExecuteEnriched(v, order) ==
    IF ~v.ok THEN [ret |-> Bool(FALSE), log |-> v.log, plan |-> v.plan]
    ELSE IF ~({"symbol", "quantity", "action"} \subseteq v.plan.keys)
    THEN [ret |-> Bool(FALSE), log |-> v.log, plan |-> v.plan]
    ELSE [ret |-> ResultOf(order), log |-> v.log \o order.log, plan |-> v.plan]

\* env.orders[1]: how the brokerage answers the order request
execute_trade_plan(trade_plan, env) ==
    LET Execute(v) == ExecuteEnriched(v, PlaceEnriched(v.plan, env.orders[1]))
    IN Execute(validate_and_enrich_trade_plan(trade_plan, env))

-----------------------------------------------------------------------------
(* The LLM clients                                                         *)

\* a provider test that sends every provider but "anthropic" to OpenAI
UsesOpenAIUnlessAnthropic(p) == p # "anthropic"

\* self.provider == "openai", in __init__ and at every call site
UsesOpenAI(p) == p = "openai"

\* self.client is the OpenAI client, self.anthropic the Anthropic client; __init__
\* constructs the one the provider selects, and only if the key is set
ClientOf(p) == IF UsesOpenAI(p) THEN "openai" ELSE "anthropic"

\* one request to the provider's client: chat.completions.create / messages.create
LlmRequest(p, purpose) == <<[e |-> "llm", client |-> ClientOf(p), purpose |-> purpose]>>

\* such a request together with what came back
LlmExchange(p, purpose, reply) ==
    <<[e |-> "llm", client |-> ClientOf(p), purpose |-> purpose, reply |-> reply]>>

-----------------------------------------------------------------------------
(* AIController.call_chat                                                  *)

\* What the interpretation request gives.  kind: "api_error" (the request raised),
\* "prose" (text that is no expression), "list", "dict".  For a dict, flag is how
\* is_trade is written: True, False (Python), true, false (JSON), or absent; keys
\* holds which of symbol, quantity, action, reason are present.
InterpretReply(kind, flag, keys, action, quantity) ==
    [kind |-> kind, flag |-> flag, keys |-> keys,
     action |-> action, symbol |-> AAPL, quantity |-> quantity]

TradeKeys == {"symbol", "quantity", "action", "reason"}
ReplyQuantity == 5

InterpretReplies ==
    { InterpretReply("api_error", "absent", {}, "buy", ReplyQuantity),
      InterpretReply("prose", "absent", {}, "buy", ReplyQuantity),
      InterpretReply("list", "absent", {}, "buy", ReplyQuantity),
      InterpretReply("dict", "absent", {}, "buy", ReplyQuantity),
      InterpretReply("dict", "False", {}, "buy", ReplyQuantity),
      InterpretReply("dict", "false", {}, "buy", ReplyQuantity),
      InterpretReply("dict", "False", TradeKeys, "buy", ReplyQuantity),
      InterpretReply("dict", "absent", TradeKeys \ {"reason"}, "sell", ReplyQuantity),
      InterpretReply("dict", "true", TradeKeys, "buy", ReplyQuantity) }
    \cup { InterpretReply("dict", "True", keys, a, ReplyQuantity) :
              keys \in {TradeKeys, TradeKeys \ {"reason"}, TradeKeys \ {"symbol"}},
              a \in {"buy", "sell"} }

\* what the normal chat request gives: a text, an empty text, or the request raised
ChatReplies == {"text", "empty", "api_error"}

\* eval(content) goes through: prose is no expression, and JSON's true and false are
\* names that Python does not know
Evaluates(reply) ==
    /\ reply.kind \in {"dict", "list"}
    /\ reply.kind = "dict" => reply.flag \notin {"true", "false"}

\* a test that takes every dict for a trade unless is_trade is False
IsTradeUnlessFalse(reply) == reply.kind = "dict" /\ reply.flag # "False"

\* isinstance(ai_response, dict) and ai_response.get("is_trade")
IsTrade(reply) == reply.kind = "dict" /\ reply.flag = "True"

\* Lines 485-526: the normal chat.  An exception (no client was constructed, the
\* request fails) is caught at line 523 and its text returned.
NormalChat(env, p, key, l) ==
    IF ~key THEN [ret |-> Text("Error: AttributeError"), log |-> l]
    ELSE IF env.chat = "api_error"
    THEN [ret |-> Text("Error: APIError"), log |-> l \o LlmExchange(p, "chat", env.chat)]
    ELSE [ret |-> Text(IF env.chat = "empty" THEN "" ELSE "response_text"),
          log |-> l \o LlmExchange(p, "chat", env.chat)]

\* a caller that sends the order of the LLM's trade again when it failed
AfterLlmOrderRetrying(order, reply, env, p, key, l) ==
    IF order.ret.tag \in {"raise", "error"}
    THEN [ret |-> order.ret, log |-> l \o order.log \o order.log]
    ELSE IF order.ret.tag = "order" /\ "reason" \notin reply.keys
    THEN NormalChat(env, p, key, l \o order.log)
    ELSE [ret |-> order.ret, log |-> l \o order.log]

\* Lines 478-483: after the order of the LLM's trade.  An exception of place_order,
\* and the missing reason of an accepted trade, are swallowed by the bare except.
AfterLlmOrder(order, reply, env, p, key, l) ==
    IF order.ret.tag = "raise" THEN NormalChat(env, p, key, l \o order.log)
    ELSE IF order.ret.tag = "order" /\ "reason" \notin reply.keys
    THEN NormalChat(env, p, key, l \o order.log)
    ELSE [ret |-> order.ret, log |-> l \o order.log]

\* Lines 470-483: the reply is a trade
LlmTrade(reply, env, p, key, l) ==
    IF ~({"symbol", "quantity", "action"} \subseteq reply.keys)
    THEN NormalChat(env, p, key, l)
    ELSE AfterLlmOrder(place_order(reply.symbol, reply.quantity, reply.action, env.orders[1]),
                       reply, env, p, key, l)

\* Lines 432-521: the handler gave nothing
Interpret(env, p, key, l) ==
    IF ~UsesOpenAI(p) THEN NormalChat(env, p, key, l)
    ELSE IF ~key THEN [ret |-> Text("Error: AttributeError"), log |-> l]
    ELSE IF env.interpret.kind = "api_error"
    THEN [ret |-> Text("Error: APIError"), log |-> l \o LlmExchange(p, "interpret", env.interpret)]
    ELSE IF Evaluates(env.interpret) /\ IsTrade(env.interpret)
    THEN LlmTrade(env.interpret, env, p, key, l \o LlmExchange(p, "interpret", env.interpret))
    ELSE NormalChat(env, p, key, l \o LlmExchange(p, "interpret", env.interpret))

\* Lines 428-430 and 523-526: h is what handle_trading_command gave
AfterHandler(h, rest) ==
    IF h.ret.tag = "raise"
    THEN [ret |-> Text("Error: JSONDecodeError"), log |-> h.log, trading_result |-> h.ret]
    ELSE IF Truthy(h.ret) THEN [ret |-> h.ret, log |-> h.log, trading_result |-> h.ret]
    ELSE [ret |-> rest.ret, log |-> rest.log, trading_result |-> h.ret]

\* question: ns_parser.question; <<>> when chat is given no argument.
\* env.interpret, env.chat: what the two LLM requests give
call_chat(question, env, p, key) ==
    IF Len(question) = 0 THEN [ret |-> None, log |-> <<>>, trading_result |-> None]
    ELSE AfterHandler(handle_trading_command(question, env),
                      Interpret(env, p, key, handle_trading_command(question, env).log))

-----------------------------------------------------------------------------
(* AIController.get_market_data                                            *)

Indices == << <<"S","P","Y">>, <<"Q","Q","Q">>, <<"D","I","A">>, <<"I","W","M">> >>

IndexPrice == 450000

\* How the quotes of the indices come back: "none" (no quote: market_data is empty),
\* "quotes" (with price and change_percent), "no_change_percent" (the quote object
\* has no change_percent, the field is None)
MarketOutcomes == {"none", "quotes", "no_change_percent"}

\* one quote request per index
get_market_data(market) ==
    [ret |-> market,
     log |-> [i \in 1..Len(Indices) |->
                 [e |-> "quote", symbol |-> Indices[i], ok |-> market # "none",
                  price |-> IF market = "none" THEN 0 ELSE IndexPrice]]]

-----------------------------------------------------------------------------
(* AIController.call_prepare and AIController.call_suggest                 *)

\* The content of the LLM's reply is a sequence of tokens: the fence ```, a word,
\* or a JSON document, which is an object with a trade_plan that is an object
\* ("plan"), an object without trade_plan ("no_trade_plan"), or an object whose
\* trade_plan is no object ("not_dict").
Fence == [t |-> "fence", w |-> ""]
Word(w) == [t |-> "word", w |-> w]
Json(doc) == [t |-> "json", w |-> doc]

Contents ==
    { <<Json("plan")>>,
      <<Fence, Json("plan"), Fence>>,
      <<Fence, Word("json"), Json("plan"), Fence>>,
      <<Fence, Word("JSON"), Json("plan"), Fence>>,
      <<Word("Here"), Json("plan")>>,
      <<Json("no_trade_plan")>>,
      <<Json("not_dict")>>,
      <<>> }

\* the trade plans the LLM may give
LlmPlans ==
    { StockPlan("buy", AAPL, 1),
      StockPlan("sell", AAPL, MaxQuantity),
      OptionPlan("buy", AAPL, 1, 96000, <<"2","5","0","1","1","7">>),
      Without(StockPlan("buy", AAPL, 1), "type"),
      Without(StockPlan("buy", AAPL, 1), "reasoning"),
      Without(StockPlan("buy", AAPL, 1), "symbol") }

\* What the plan request gives: the request raised, the message has no content, or
\* a content; plan is the trade plan of its JSON document.
PlanReply(kind, content, plan) == [kind |-> kind, content |-> content, plan |-> plan]

PlanReplies ==
    { PlanReply("api_error", <<>>, StockPlan("buy", AAPL, 1)),
      PlanReply("no_content", <<>>, StockPlan("buy", AAPL, 1)) }
    \cup { PlanReply("content", c, StockPlan("buy", AAPL, 1)) : c \in Contents }
    \cup { PlanReply("content", c, plan) :
              c \in {<<Json("plan")>>, <<Fence, Word("json"), Json("plan"), Fence>>},
              plan \in LlmPlans }

\* content.split("```")[1]: what lies between the first fence and the next
RECURSIVE UpToFence(_)
UpToFence(c) ==
    IF Len(c) = 0 \/ c[1].t = "fence" THEN <<>> ELSE <<c[1]>> \o UpToFence(Tail(c))

\* if content.startswith("json"): content = content[4:]
DropJson(c) == IF Len(c) > 0 /\ c[1] = Word("json") THEN Tail(c) ELSE c

\* Lines 596-601: the markdown code block is taken off
Clean(content) ==
    IF Len(content) > 0 /\ content[1].t = "fence"
    THEN DropJson(UpToFence(Tail(content)))
    ELSE content

\* json.loads(content) goes through: the content is one JSON document
Loadable(c) == Len(c) = 1 /\ c[1].t = "json"

\* Lines 609-613: the display reads action, quantity, symbol and reasoning
Displayable(trade_plan) ==
    {"action", "quantity", "symbol", "reasoning"} \subseteq trade_plan.keys

\* What the user types at the prompt; ok is FALSE when input() raises (end of input)
NoAnswer == [ok |-> FALSE, text |-> <<>>]

Answers ==
    {NoAnswer} \cup
    { [ok |-> TRUE, text |-> t] :
        t \in { <<"y">>, <<"Y">>, <<" ","y","e","s"," ">>, <<"Y","E","S">>,
                <<"n">>, <<"n","o">>, <<>>,
                <<"y","e","s"," ","p","l","e","a","s","e">>, <<"o","k">> } }

\* every response but n and no counts as a confirmation
ConfirmedUnlessNo(response) == response \notin {<<"n">>, <<"n","o">>}

\* response in ['y', 'yes']
Confirmed(response) == response \in {<<"y">>, <<"y","e","s">>}

\* what a command that returns nothing leaves behind
Done(l, plan_in, plan_out) == [ret |-> None, log |-> l, planIn |-> plan_in, planOut |-> plan_out]

\* Lines 615-627 (and 714-726): the prompt, and the execution if it is confirmed.
\* executed: what execute_trade_plan gives for the plan.
ConfirmAndExecute(trade_plan, answer, executed, l) ==
    IF ~answer.ok
    THEN Done(l \o <<[e |-> "input", ok |-> FALSE, raw |-> answer.text]>>, trade_plan, trade_plan)
    ELSE IF Confirmed(Strip(Lower(answer.text)))
    THEN Done(l \o <<[e |-> "input", ok |-> TRUE, raw |-> answer.text]>> \o executed.log,
              trade_plan, executed.plan)
    ELSE Done(l \o <<[e |-> "input", ok |-> TRUE, raw |-> answer.text]>>, trade_plan, trade_plan)

\* Lines 594-635: the reply of the plan request is read, shown and confirmed
PreparePlan(reply, env, l) ==
    IF reply.kind = "no_content" THEN Done(l, <<>>, <<>>)
    ELSE IF ~Loadable(Clean(reply.content)) THEN Done(l, <<>>, <<>>)
    ELSE IF Clean(reply.content)[1].w # "plan" THEN Done(l, <<>>, <<>>)
    ELSE IF ~Displayable(reply.plan) THEN Done(l, reply.plan, reply.plan)
    ELSE ConfirmAndExecute(reply.plan, env.answer, execute_trade_plan(reply.plan, env), l)

\* Lines 541-650: after the market data was fetched.  env.reply: what the plan
\* request gives; env.answer: what the user types
PrepareAfterMarket(m, env, p, key) ==
    IF m.ret = "no_change_percent" THEN Done(m.log, <<>>, <<>>)
    ELSE IF ~key THEN Done(m.log, <<>>, <<>>)
    ELSE IF env.reply.kind = "api_error" THEN Done(m.log \o LlmRequest(p, "plan"), <<>>, <<>>)
    ELSE IF UsesOpenAI(p) THEN PreparePlan(env.reply, env, m.log \o LlmRequest(p, "plan"))
    ELSE Done(m.log \o LlmRequest(p, "plan"), <<>>, <<>>)

\* belief: ns_parser.belief; <<>> when prepare is given no argument
call_prepare(belief, env, p, key) ==
    IF Len(belief) = 0 THEN Done(<<>>, <<>>, <<>>)
    ELSE PrepareAfterMarket(get_market_data(env.market), env, p, key)

\* Lines 688-734: as in call_prepare, with the price of the symbol fetched before
\* the plan is shown.  env.shown: what that quote gives
SuggestPlan(reply, env, l) ==
    IF reply.kind = "no_content" THEN Done(l, <<>>, <<>>)
    ELSE IF ~Loadable(Clean(reply.content)) THEN Done(l, <<>>, <<>>)
    ELSE IF Clean(reply.content)[1].w # "plan" THEN Done(l, <<>>, <<>>)
    ELSE IF "symbol" \notin reply.plan.keys THEN Done(l, reply.plan, reply.plan)
    ELSE IF ~Displayable(reply.plan)
    THEN Done(l \o get_stock_price(reply.plan.symbol, env.shown).log, reply.plan, reply.plan)
    ELSE ConfirmAndExecute(reply.plan, env.answer, execute_trade_plan(reply.plan, env),
                           l \o get_stock_price(reply.plan.symbol, env.shown).log)

\* Lines 656-749: after the market data was fetched
SuggestAfterMarket(m, env, p, key) ==
    IF m.ret = "no_change_percent" THEN Done(m.log, <<>>, <<>>)
    ELSE IF ~key THEN Done(m.log, <<>>, <<>>)
    ELSE IF env.reply.kind = "api_error" THEN Done(m.log \o LlmRequest(p, "plan"), <<>>, <<>>)
    ELSE IF UsesOpenAI(p) THEN SuggestPlan(env.reply, env, m.log \o LlmRequest(p, "plan"))
    ELSE Done(m.log \o LlmRequest(p, "plan"), <<>>, <<>>)

call_suggest(env, p, key) == SuggestAfterMarket(get_market_data(env.market), env, p, key)

-----------------------------------------------------------------------------
(* The state machine: one action per command, and the return to the menu   *)

Providers == {"openai", "anthropic", "mistral"}

\* An environment says how the outside world answers each request a command may
\* make.  An answer that the command does not ask for is left at its quiet value:
\* Asked(l, what, k) says that log l holds at least k requests of kind what.
Asked(l, what, k) == Len(SelectSeq(l, LAMBDA ev : ev.e = what)) >= k

AskedLlm(l, purpose) == \E i \in 1..Len(l) : l[i].e = "llm" /\ l[i].purpose = purpose

\* the answers to draw for a request: all of S if the request is made
Draw(asked, S, quiet) == IF asked THEN S ELSE {quiet}

QuietEnv ==
    [position |-> NoPosition, orders |-> <<"accepted">>,
     price |-> NoPrice, chain |-> NoChain,
     interpret |-> InterpretReply("api_error", "absent", {}, "buy", ReplyQuantity),
     chat |-> "api_error",
     market |-> "none",
     reply |-> PlanReply("api_error", <<>>, StockPlan("buy", AAPL, 1)),
     shown |-> NoPrice,
     answer |-> NoAnswer]

Init ==
    /\ provider \in Providers
    /\ hasKey \in BOOLEAN
    /\ pc = "idle"
    /\ cmd = ""
    /\ arg = <<>>
    /\ log = <<>>
    /\ ret = None
    /\ planIn = <<>>
    /\ planOut = <<>>
    /\ trading_result = None

Finish(name, a, r) ==
    /\ pc' = "done"
    /\ cmd' = name
    /\ arg' = a
    /\ log' = r.log
    /\ ret' = r.ret
    /\ UNCHANGED <<provider, hasKey>>

NoPlan == planIn' = <<>> /\ planOut' = <<>>

\* parse_trading_command(text): it asks nothing of the outside world
ParseTradingCommand ==
    /\ pc = "idle"
    /\ \E text \in ParseTexts :
        \E c \in {parse_trading_command(text)} :
            /\ Finish("parse_trading_command", text,
                      [ret |-> IF Len(c) = 0 THEN None ELSE Triple(c), log |-> <<>>])
            /\ NoPlan
            /\ trading_result' = None

HandleTradingCommand ==
    /\ pc = "idle"
    /\ \E text \in Texts, position \in Positions, o1 \in OrderOutcomes :
        \E r \in {handle_trading_command(text,
                      [QuietEnv EXCEPT !.position = position, !.orders[1] = o1])} :
            /\ Asked(r.log, "get_position", 1) \/ position = QuietEnv.position
            /\ Asked(r.log, "place_order", 1) \/ o1 = QuietEnv.orders[1]
            /\ Finish("handle_trading_command", text, r)
            /\ NoPlan
            /\ trading_result' = None

ExecuteTradePlan ==
    /\ pc = "idle"
    /\ \E trade_plan \in Plans, price \in Prices, chain \in Chains, o1 \in OrderOutcomes :
        \E r \in {execute_trade_plan(trade_plan,
                      [QuietEnv EXCEPT !.price = price, !.chain = chain, !.orders[1] = o1])} :
            /\ Asked(r.log, "quote", 1) \/ price = QuietEnv.price
            /\ Asked(r.log, "chains", 1) \/ chain = QuietEnv.chain
            /\ Asked(r.log, "place_order", 1) \/ o1 = QuietEnv.orders[1]
            /\ Finish("execute_trade_plan", <<>>, r)
            /\ planIn' = trade_plan
            /\ planOut' = r.plan
            /\ trading_result' = None

\* chat -q question; the answers are drawn in the order the requests are made
CallChat ==
    /\ pc = "idle"
    /\ \E question \in Texts \cup {<<>>} :
        \E position \in Draw(Asked(call_chat(question, QuietEnv, provider, hasKey).log,
                                   "get_position", 1), Positions, QuietEnv.position) :
        \E interpret \in Draw(AskedLlm(call_chat(question,
                                  [QuietEnv EXCEPT !.position = position],
                                  provider, hasKey).log, "interpret"),
                              InterpretReplies, QuietEnv.interpret) :
        \E o1 \in Draw(Asked(call_chat(question,
                                  [QuietEnv EXCEPT !.position = position, !.interpret = interpret],
                                  provider, hasKey).log, "place_order", 1),
                       OrderOutcomes, QuietEnv.orders[1]) :
        \E chat \in Draw(AskedLlm(call_chat(question,
                                  [QuietEnv EXCEPT !.position = position, !.interpret = interpret,
                                                   !.orders[1] = o1],
                                  provider, hasKey).log, "chat"),
                         ChatReplies, QuietEnv.chat) :
        \E r \in {call_chat(question,
                      [QuietEnv EXCEPT !.position = position, !.interpret = interpret,
                                       !.orders[1] = o1, !.chat = chat],
                      provider, hasKey)} :
            /\ Finish("call_chat", question, r)
            /\ NoPlan
            /\ trading_result' = r.trading_result

\* prepare -b belief
CallPrepare ==
    /\ pc = "idle"
    /\ \E belief \in {<< <<"t","e","c","h">>, <<"w","i","l","l">>, <<"r","a","l","l","y">> >>, <<>>} :
        \E market \in Draw(Asked(call_prepare(belief, QuietEnv, provider, hasKey).log, "quote", 1),
                           MarketOutcomes, QuietEnv.market) :
        \E reply \in Draw(Asked(call_prepare(belief, [QuietEnv EXCEPT !.market = market],
                                             provider, hasKey).log, "llm", 1),
                          PlanReplies, QuietEnv.reply) :
        \E answer \in Draw(Asked(call_prepare(belief,
                                     [QuietEnv EXCEPT !.market = market, !.reply = reply],
                                     provider, hasKey).log, "input", 1),
                           Answers, QuietEnv.answer) :
        \E price \in Draw(Asked(call_prepare(belief,
                                     [QuietEnv EXCEPT !.market = market, !.reply = reply,
                                                      !.answer = answer],
                                     provider, hasKey).log, "quote", Len(Indices) + 1),
                          Prices, QuietEnv.price) :
        \E chain \in Draw(Asked(call_prepare(belief,
                                     [QuietEnv EXCEPT !.market = market, !.reply = reply,
                                                      !.answer = answer, !.price = price],
                                     provider, hasKey).log, "chains", 1),
                          Chains, QuietEnv.chain) :
        \E o1 \in Draw(Asked(call_prepare(belief,
                                     [QuietEnv EXCEPT !.market = market, !.reply = reply,
                                                      !.answer = answer, !.price = price,
                                                      !.chain = chain],
                                     provider, hasKey).log, "place_order", 1),
                       OrderOutcomes, QuietEnv.orders[1]) :
        \E r \in {call_prepare(belief,
                      [QuietEnv EXCEPT !.market = market, !.reply = reply, !.answer = answer,
                                       !.price = price, !.chain = chain, !.orders[1] = o1],
                      provider, hasKey)} :
            /\ Finish("call_prepare", belief, r)
            /\ planIn' = r.planIn
            /\ planOut' = r.planOut
            /\ trading_result' = None

\* suggest
CallSuggest ==
    /\ pc = "idle"
    /\ \E market \in MarketOutcomes :
        \E reply \in Draw(Asked(call_suggest([QuietEnv EXCEPT !.market = market],
                                             provider, hasKey).log, "llm", 1),
                          PlanReplies, QuietEnv.reply) :
        \E shown \in Draw(Asked(call_suggest([QuietEnv EXCEPT !.market = market, !.reply = reply],
                                             provider, hasKey).log, "quote", Len(Indices) + 1),
                          Prices, QuietEnv.shown) :
        \E answer \in Draw(Asked(call_suggest(
                                     [QuietEnv EXCEPT !.market = market, !.reply = reply,
                                                      !.shown = shown],
                                     provider, hasKey).log, "input", 1),
                           Answers, QuietEnv.answer) :
        \E price \in Draw(Asked(call_suggest(
                                     [QuietEnv EXCEPT !.market = market, !.reply = reply,
                                                      !.shown = shown, !.answer = answer],
                                     provider, hasKey).log, "quote", Len(Indices) + 2),
                          Prices, QuietEnv.price) :
        \E chain \in Draw(Asked(call_suggest(
                                     [QuietEnv EXCEPT !.market = market, !.reply = reply,
                                                      !.shown = shown, !.answer = answer,
                                                      !.price = price],
                                     provider, hasKey).log, "chains", 1),
                          Chains, QuietEnv.chain) :
        \E o1 \in Draw(Asked(call_suggest(
                                     [QuietEnv EXCEPT !.market = market, !.reply = reply,
                                                      !.shown = shown, !.answer = answer,
                                                      !.price = price, !.chain = chain],
                                     provider, hasKey).log, "place_order", 1),
                       OrderOutcomes, QuietEnv.orders[1]) :
        \E r \in {call_suggest(
                      [QuietEnv EXCEPT !.market = market, !.reply = reply, !.shown = shown,
                                       !.answer = answer, !.price = price, !.chain = chain,
                                       !.orders[1] = o1],
                      provider, hasKey)} :
            /\ Finish("call_suggest", <<>>, r)
            /\ planIn' = r.planIn
            /\ planOut' = r.planOut
            /\ trading_result' = None

\* the command has returned; its locals are gone and the menu waits for the next one
Return ==
    /\ pc = "done"
    /\ pc' = "idle"
    /\ cmd' = ""
    /\ arg' = <<>>
    /\ log' = <<>>
    /\ ret' = None
    /\ NoPlan
    /\ trading_result' = None
    /\ UNCHANGED <<provider, hasKey>>

Next ==
    \/ ParseTradingCommand
    \/ HandleTradingCommand
    \/ ExecuteTradePlan
    \/ CallChat
    \/ CallPrepare
    \/ CallSuggest
    \/ Return

Spec == Init /\ [][Next]_vars

-----------------------------------------------------------------------------
(* Properties                                                              *)

\* the requests of one kind that a log holds
Orders(l) == SelectSeq(l, LAMBDA ev : ev.e = "place_order")
Lookups(l) == SelectSeq(l, LAMBDA ev : ev.e = "get_position")
Llms(l) == SelectSeq(l, LAMBDA ev : ev.e = "llm")

Handled == pc = "done" /\ cmd = "handle_trading_command"

\* the parsed command of the question that was handled
Parsed == ParsedCommand[arg]
IsSell == Len(Parsed) > 0 /\ Parsed[1] = "sell"
IsBuy == Len(Parsed) > 0 /\ Parsed[1] = "buy"

\* the sell check turned the command away: the lookup gave nothing, or fewer
\* shares than asked
CheckRejects(l) ==
    /\ Len(Lookups(l)) > 0
    /\ \/ ~Lookups(l)[1].found
       \/ Lookups(l)[1].halves < 2 * Parsed[3]

\* C1: handle_trading_command never submits a sell order that fails the
\* position-sufficiency check.  For a text that parses as a sell of q shares of S,
\* the position of S is looked up; if the lookup gives nothing or the quantity held
\* is strictly less than q, no order is placed and the result is None; if the
\* quantity held is q or more, the sell order of q shares of S is submitted.
C1_SellCheck ==
    (Handled /\ IsSell) =>
        /\ Len(Lookups(log)) = 1
        /\ Lookups(log)[1].symbol = Parsed[2]
        /\ CheckRejects(log) => (Len(Orders(log)) = 0 /\ ret = None)
        /\ ~CheckRejects(log) =>
              /\ Len(Orders(log)) = 1
              /\ Orders(log)[1].symbol = Parsed[2]
              /\ Orders(log)[1].qty = Parsed[3]
              /\ Orders(log)[1].side = "sell"

\* a sell of q shares against a holding of q - 1/2 was turned away
C1_Witness ==
    /\ Handled /\ IsSell
    /\ Lookups(log)[1].found
    /\ Lookups(log)[1].halves = 2 * Parsed[3] - 1
    /\ Len(Orders(log)) = 0
    /\ ret = None

Executed == pc = "done" /\ cmd = "execute_trade_plan"

\* the chain that the command was given, and whether enrichment went through
ChainRequests == SelectSeq(log, LAMBDA ev : ev.e = "chains")
Enriched == "current_price" \in planOut.keys \/ "option_price" \in planOut.keys
EnrichedOption == "option_price" \in planOut.keys

\* a date YYMMDD or YYYY-MM-DD as a number that grows with time
DateKey(d) == ToInt(IF Len(d) = 6 THEN d ELSE ShortDate(d))

\* C5 as stated: for an option plan the submitted symbol is the root symbol, the
\* enriched expiry as six digits, one letter P or C, and the strike times 1000
\* zero-padded to exactly 8 digits (strikes are held in thousandths, so the strike
\* times 1000 is planOut.strike itself).
C5_OccSymbol ==
    (Executed /\ planIn.type = "option" /\ Len(Orders(log)) = 1) =>
        LET sym == Orders(log)[1].symbol
            root == planIn.symbol
        IN /\ Len(planOut.expiry) = 6 /\ IsDigits(planOut.expiry)
           /\ Len(sym) = Len(root) + 6 + 1 + 8
           /\ SubSeq(sym, 1, Len(root)) = root
           /\ SubSeq(sym, Len(root) + 1, Len(root) + 6) = planOut.expiry
           /\ sym[Len(root) + 7] \in {"P", "C"}
           /\ SubSeq(sym, Len(root) + 8, Len(sym)) = ZeroPad(planOut.strike, 8)

\* C6: closest-strike matching.  After a successful enrichment of an option plan the
\* strike is one of the strikes the chain lists for the resolved expiry and the
\* selected option type, and no other strike listed there is strictly closer to the
\* target strike of the plan.
C6_ClosestStrike ==
    (Executed /\ EnrichedOption) =>
        LET rows == ChainRequests[1].rows
            listed == {r.strike : r \in {q \in rows :
                          /\ ShortDate(q.expiration) = planOut.expiry
                          /\ q.type = OptionTypeOf(planIn.action)}}
        IN /\ planOut.strike \in listed
           /\ \A k \in listed :
                 ~(Abs(k - planIn.strike) < Abs(planOut.strike - planIn.strike))

\* two strikes were listed and the one chosen is not the target itself
C6_Witness ==
    /\ Executed /\ EnrichedOption
    /\ planOut.strike # planIn.strike
    /\ \E r1, r2 \in ChainRequests[1].rows :
          /\ r1.strike # r2.strike
          /\ r1.type = r2.type /\ r1.expiration = r2.expiration
          /\ r1.strike = planOut.strike
          /\ ShortDate(r1.expiration) = planOut.expiry

\* C7: expiry resolution.  After a successful enrichment the expiry is the target if
\* the chain lists the target, and otherwise the earliest listed expiry on or after
\* the target; it is never earlier than the target.  If the chain lists no expiry
\* on or after the target, enrichment fails: the plan is not enriched, no order is
\* sent and execute_trade_plan returns False.
C7_ExpiryResolution ==
    (Executed /\ Len(ChainRequests) = 1 /\ ChainRequests[1].ok /\ "expiry" \in planIn.keys) =>
        LET listed == {r.expiration : r \in ChainRequests[1].rows}
            target == DateKey(planIn.expiry)
            onOrAfter == {x \in listed : DateKey(x) >= target}
        IN /\ EnrichedOption =>
                /\ DateKey(planOut.expiry) >= target
                /\ (\E x \in listed : DateKey(x) = target) => planOut.expiry = planIn.expiry
                /\ \E x \in onOrAfter :
                      /\ ShortDate(x) = planOut.expiry
                      /\ \A y \in onOrAfter : DateKey(x) <= DateKey(y)
           /\ onOrAfter = {} =>
                /\ ~EnrichedOption
                /\ Len(Orders(log)) = 0
                /\ ret = Bool(FALSE)

\* the target was not listed, two later expiries were, and the earlier one was taken
C7_Witness ==
    /\ Executed /\ EnrichedOption
    /\ planOut.expiry # planIn.expiry
    /\ Cardinality({r.expiration : r \in ChainRequests[1].rows}) = 2
    /\ \A r \in ChainRequests[1].rows : DateKey(r.expiration) > DateKey(planIn.expiry)

\* C9: execute_trade_plan returns True exactly when enrichment succeeded, one order
\* request was sent and the brokerage's response carries no error; in every other
\* case it returns False, and it never raises.
C9_ExecuteResult ==
    Executed =>
        /\ ret.tag = "bool"
        /\ Len(Orders(log)) <= 1
        /\ (ret = Bool(TRUE)) <=>
              /\ Enriched
              /\ Len(Orders(log)) = 1
              /\ Orders(log)[1].outcome \in {"accepted", "pending_new"}

\* the order request of an enriched plan failed, and the result is False
C9_Witness ==
    /\ Executed /\ Enriched
    /\ Len(Orders(log)) = 1
    /\ Orders(log)[1].outcome \in {"rejected", "unreachable", "bad_body"}
    /\ ret = Bool(FALSE)

Chatted == pc = "done" /\ cmd = "call_chat"
Asks == pc = "done" /\ cmd \in {"call_chat", "call_prepare", "call_suggest"}
Planned == pc = "done" /\ cmd \in {"call_prepare", "call_suggest"}

\* where the log holds the requests of one kind
IndicesOf(l, what) == {i \in 1..Len(l) : l[i].e = what}

\* C2 as stated: within one call_chat command, if the question parses as a sell
\* command and the position check rejects it (no position, or fewer shares held
\* than asked), then no order at all is submitted during that command, whatever the
\* provider and whatever the LLM answers.
C2_NoOrderAfterRejectedSell ==
    (Chatted /\ Len(arg) > 0 /\ IsSell /\ CheckRejects(log)) => Len(Orders(log)) = 0

\* C3: a trade plan of call_prepare or call_suggest is executed only after the user
\* confirms.  The user is asked at most once; every request of execute_trade_plan
\* (its quote, its chain request, its order) comes after an answer that, lower-cased
\* and stripped, is exactly y or yes; after any other answer, and when the prompt
\* is not answered at all, the command makes no further request.
C3_ConfirmBeforeExecute ==
    Planned =>
        LET inputs == IndicesOf(log, "input")
            yes == {i \in inputs :
                       /\ log[i].ok
                       /\ Strip(Lower(log[i].raw)) \in {<<"y">>, <<"y","e","s">>}}
        IN /\ Cardinality(inputs) <= 1
           /\ \A j \in IndicesOf(log, "place_order") \cup IndicesOf(log, "chains") :
                 \E i \in yes : i < j
           /\ \A i \in inputs \ yes : i = Len(log)
           /\ \A i \in inputs : \A j \in 1..(i - 1) : log[j].e \notin {"place_order", "chains"}

\* the answer " yes " confirmed the plan, and its order went out after the prompt
C3_Witness ==
    /\ Planned
    /\ \E i \in IndicesOf(log, "input") :
          /\ log[i].raw = <<" ","y","e","s"," ">>
          /\ \E j \in IndicesOf(log, "place_order") : i < j

\* C4: in call_chat the direct handler runs before any LLM request.  A question that
\* parses as a command starts with the handler's request to the brokerage, and no
\* position lookup follows an LLM request; an LLM request is made only if the
\* handler returned None; and when the handler returned an order response or an
\* error record, call_chat returns that very value and makes no LLM request.
C4_RegexFirst ==
    (Chatted /\ Len(arg) > 0) =>
        /\ IsBuy => (Len(log) > 0 /\ log[1].e = "place_order"
                       /\ log[1].symbol = Parsed[2] /\ log[1].qty = Parsed[3]
                       /\ log[1].side = "buy")
        /\ IsSell => (Len(log) > 0 /\ log[1].e = "get_position" /\ log[1].symbol = Parsed[2])
        /\ \A i \in IndicesOf(log, "llm") : \A j \in IndicesOf(log, "get_position") : j < i
        /\ Len(Llms(log)) > 0 => trading_result = None
        /\ trading_result.tag \in {"order", "error"} =>
              (ret = trading_result /\ Len(Llms(log)) = 0)

\* the direct order failed: the error record was returned and no LLM was asked
C4_Witness ==
    /\ Chatted /\ Len(arg) > 0
    /\ provider = "openai" /\ hasKey
    /\ trading_result.tag = "error"
    /\ ret = trading_result
    /\ Len(Orders(log)) = 1
    /\ Len(Llms(log)) = 0

\* C10: the provider decides the vendor.  Under "openai" every LLM request of chat,
\* prepare and suggest goes to the OpenAI client, under any other value to the
\* Anthropic client.  Under a provider other than "openai", prepare and suggest
\* never prompt and never submit an order, and chat submits an order only on the
\* direct path: it is the order of the parsed command, returned by the handler
\* with no LLM request in that command.
C10_ProviderSelection ==
    Asks =>
        /\ \A i \in IndicesOf(log, "llm") :
              log[i].client = (IF provider = "openai" THEN "openai" ELSE "anthropic")
        /\ (provider # "openai" /\ Planned) =>
              (IndicesOf(log, "input") = {} /\ Len(Orders(log)) = 0)
        /\ (provider # "openai" /\ Chatted /\ Len(Orders(log)) > 0) =>
              /\ Len(Orders(log)) = 1
              /\ Len(arg) > 0 /\ Len(Parsed) > 0
              /\ Orders(log)[1].side = Parsed[1]
              /\ Orders(log)[1].symbol = Parsed[2]
              /\ Orders(log)[1].qty = Parsed[3]
              /\ Len(Llms(log)) = 0

\* under the provider "mistral" the plan request of prepare went to the Anthropic
\* client, and the command ended without a prompt
C10_Witness ==
    /\ pc = "done" /\ cmd = "call_prepare"
    /\ provider = "mistral" /\ hasKey
    /\ Len(Llms(log)) = 1
    /\ Llms(log)[1].client = "anthropic"
    /\ IndicesOf(log, "input") = {}

ParsedText == pc = "done" /\ cmd = "parse_trading_command"

\* the lower-cased text holds, from token v on, a command of the verbs given whose
\* quantity is token j and whose symbol is the leading letters of token i
Holds(t, verbs, v, j, i) ==
    /\ EndsWithVerb(t[v], verbs)
    /\ \/ /\ j = v + 1 /\ i = v + 2
          /\ IsDigits(t[j])
       \/ /\ j = v + 1 /\ i = v + 3
          /\ IsDigits(t[j]) /\ t[v + 2] \in ShareWords
       \/ /\ j = v + 1 /\ i = v + 4
          /\ IsDigits(t[j]) /\ t[v + 2] \in ShareWords /\ t[v + 3] = <<"o","f">>
       \/ /\ i = v + 1 /\ j = v + 2
          /\ IsLetters(t[i]) /\ IsDigits(t[j])
          /\ j + 1 <= Len(t) /\ StartsWith(t[j + 1], <<"s","h","a","r","e">>)
    /\ Len(LetterPrefix(t[i])) > 0

\* C11: parse_trading_command returns None or a triple (action, symbol, quantity)
\* with action buy or sell.  The triple comes from a command that the lower-cased
\* text holds: its verb is one of the action, its quantity is the digit string as
\* an integer, and its symbol is the ticker of the company table when the matched
\* word is a listed company (apple gives AAPL, google and alphabet give GOOGL,
\* facebook and meta give META) and the matched word upper-cased otherwise.  A text
\* that holds a buy command is classified as a buy, whatever sell command it holds.
C11_ParseResult ==
    ParsedText =>
        LET t == TextLower(arg)
            n == Len(t)
            named == { <<<<"a","p","p","l","e">>, <<"A","A","P","L">>>>,
                       <<<<"g","o","o","g","l","e">>, <<"G","O","O","G","L">>>>,
                       <<<<"a","l","p","h","a","b","e","t">>, <<"G","O","O","G","L">>>>,
                       <<<<"f","a","c","e","b","o","o","k">>, <<"M","E","T","A">>>>,
                       <<<<"m","e","t","a">>, <<"M","E","T","A">>>> }
            listed == {p[1] : p \in company_to_ticker}
            Verbs(action) == IF action = "buy" THEN BuyVerbs ELSE SellVerbs
        IN \/ ret = None
           \/ /\ ret.tag = "tuple" /\ Len(ret.val) = 3
              /\ ret.val[1] \in {"buy", "sell"}
              /\ \E v, j, i \in 1..n :
                    /\ Holds(t, Verbs(ret.val[1]), v, j, i)
                    /\ ret.val[3] = ToInt(t[j])
                    /\ \A p \in named : LetterPrefix(t[i]) = p[1] => ret.val[2] = p[2]
                    /\ LetterPrefix(t[i]) \in listed => <<LetterPrefix(t[i]), ret.val[2]>> \in company_to_ticker
                    /\ LetterPrefix(t[i]) \notin listed => ret.val[2] = Upper(LetterPrefix(t[i]))
              /\ (\E v, j, i \in 1..n : Holds(t, BuyVerbs, v, j, i)) => ret.val[1] = "buy"

\* "sell 5 apple and buy 2 msft" holds a sell and a buy command and was classified as
\* the buy of 2 MSFT
C11_Witness ==
    /\ ParsedText
    /\ Len(arg) = 7
    /\ Lower(arg[1]) = <<"s","e","l","l">> /\ Lower(arg[5]) = <<"b","u","y">>
    /\ ret = Triple(<<"buy", <<"M","S","F","T">>, 2>>)

\* C12: one invocation of call_chat, call_prepare or call_suggest sends at most one
\* order request to the brokerage, whatever the position lookup, the LLM requests and
\* the order request give: no order request follows an order request, be it
\* accepted or failed.
C12_AtMostOneOrder ==
    Asks =>
        /\ Len(Orders(log)) <= 1
        /\ \A i \in IndicesOf(log, "place_order") :
              \A j \in (i + 1)..Len(log) : log[j].e # "place_order"

\* the order of the LLM's trade failed with a body that is no JSON, the chat went on
\* to the normal chat request, and no second order followed
C12_Witness ==
    /\ Chatted
    /\ Len(Orders(log)) = 1
    /\ Orders(log)[1].outcome = "bad_body"
    /\ \E i \in IndicesOf(log, "place_order") :
          /\ \E j \in IndicesOf(log, "llm") : j < i
          /\ \E j \in IndicesOf(log, "llm") : j > i

\* where the log holds the LLM requests of one purpose
LlmIndices(l, purpose) == {i \in IndicesOf(l, "llm") : l[i].purpose = purpose}

QuoteRequests == SelectSeq(log, LAMBDA ev : ev.e = "quote")

\* the expiries that the chain lists on or after the target of the plan, and the
\* rows of the earliest of them that are of the type that the action selects
OnOrAfter == {r.expiration : r \in {q \in ChainRequests[1].rows :
                                      DateKey(q.expiration) >= DateKey(planIn.expiry)}}
RowsOfType ==
    {r \in ChainRequests[1].rows :
        /\ \A x \in OnOrAfter : DateKey(r.expiration) <= DateKey(x)
        /\ r.expiration \in OnOrAfter
        /\ r.type = (IF planIn.action = "buy" THEN "puts" ELSE "calls")}

\* why the enrichment of an option plan cannot go through
PriceUnavailable == Len(QuoteRequests) > 0 /\ ~QuoteRequests[1].ok
ChainUnavailable == Len(ChainRequests) > 0 /\ ~ChainRequests[1].ok
NoExpiryLeft ==
    /\ Len(ChainRequests) > 0 /\ ChainRequests[1].ok
    /\ "expiry" \in planIn.keys
    /\ OnOrAfter = {}
NoContractOfType ==
    /\ Len(ChainRequests) > 0 /\ ChainRequests[1].ok
    /\ {"expiry", "action"} \subseteq planIn.keys
    /\ OnOrAfter # {}
    /\ RowsOfType = {}

\* C14: if validate_and_enrich_trade_plan fails (the current price is unavailable,
\* the option chain is unavailable, the chain lists no expiry on or after the target,
\* or it lists no contract of the selected type at the resolved expiry, and so no
\* strike), execute_trade_plan sends no order request and returns False.
C14_NoOrderOnFailedEnrichment ==
    Executed =>
        ((PriceUnavailable \/ ChainUnavailable \/ NoExpiryLeft \/ NoContractOfType) =>
            /\ Len(Orders(log)) = 0
            /\ ret = Bool(FALSE)
            /\ ~Enriched)

\* the chain listed the expiry of the plan, but only contracts of the other type
C14_Witness ==
    /\ Executed
    /\ NoContractOfType
    /\ \E r \in ChainRequests[1].rows : ShortDate(r.expiration) = planIn.expiry
    /\ Len(Orders(log)) = 0
    /\ ret = Bool(FALSE)

\* the two plans agree on every field named
SameOn(fields, a, b) ==
    /\ "symbol" \in fields => a.symbol = b.symbol
    /\ "action" \in fields => a.action = b.action
    /\ "quantity" \in fields => a.quantity = b.quantity
    /\ "type" \in fields => a.type = b.type
    /\ "strike" \in fields => a.strike = b.strike
    /\ "expiry" \in fields => a.expiry = b.expiry
    /\ \A k \in fields : k \in a.keys <=> k \in b.keys

\* C15: for a plan of type stock, enrichment adds the current price and nothing
\* else, symbol, action, quantity and type stay as they were, and the order that is
\* then submitted carries the plan's symbol, quantity and action.  For an option
\* plan, enrichment adds the stock price and the option price and may change strike
\* and expiry; symbol, action, quantity and type stay as they were.
C15_EnrichmentFrame ==
    (Executed /\ Enriched) =>
        /\ planIn.type = "stock" =>
              /\ planOut.keys = planIn.keys \cup {"current_price"}
              /\ planOut.current_price = QuoteRequests[1].price
              /\ SameOn({"symbol", "action", "quantity", "type", "strike", "expiry"},
                        planIn, planOut)
              /\ \A i \in 1..Len(Orders(log)) :
                    /\ Orders(log)[i].symbol = planIn.symbol
                    /\ Orders(log)[i].qty = planIn.quantity
                    /\ Orders(log)[i].side = planIn.action
              /\ {"symbol", "quantity", "action"} \subseteq planIn.keys => Len(Orders(log)) = 1
        /\ planIn.type # "stock" =>
              /\ planOut.keys = planIn.keys \cup {"current_stock_price", "option_price"}
              /\ planOut.current_stock_price = QuoteRequests[1].price
              /\ SameOn({"symbol", "action", "quantity", "type"}, planIn, planOut)
              /\ \A i \in 1..Len(Orders(log)) :
                    /\ Orders(log)[i].qty = planIn.quantity
                    /\ Orders(log)[i].side = planIn.action

\* a stock plan to sell the largest quantity was enriched with the price of the
\* quote, and its order went out with that quantity
C15_Witness ==
    /\ Executed /\ Enriched
    /\ planIn.type = "stock"
    /\ planIn.action = "sell" /\ planIn.quantity = MaxQuantity
    /\ "current_price" \notin planIn.keys /\ "current_price" \in planOut.keys
    /\ Len(Orders(log)) = 1
    /\ Orders(log)[1].qty = MaxQuantity

\* C16: the option type of the enrichment and of the order agree.  The symbol of
\* every option order carries the flag P if the action of the plan is buy and C
\* otherwise, and the strike and the expiry of the enriched plan are those of a row
\* of the chain whose type is puts for the flag P and calls for the flag C.
C16_OptionTypeConsistent ==
    (Executed /\ planIn.type # "stock" /\ Len(Orders(log)) > 0) =>
        LET flag == Orders(log)[1].symbol[Len(planIn.symbol) + Len(planOut.expiry) + 1]
        IN /\ flag \in {"P", "C"}
           /\ flag = "P" <=> planIn.action = "buy"
           /\ Orders(log)[1].side = planIn.action
           /\ \E r \in ChainRequests[1].rows :
                 /\ r.type = (IF flag = "P" THEN "puts" ELSE "calls")
                 /\ r.strike = planOut.strike
                 /\ ShortDate(r.expiration) = planOut.expiry

\* the chain listed a put and a call of different strikes at the expiry; the plan
\* to sell took the strike of the call and its order went out with the flag C
C16_Witness ==
    /\ Executed /\ planIn.type # "stock" /\ Len(Orders(log)) = 1
    /\ planIn.action = "sell"
    /\ Orders(log)[1].symbol[Len(planIn.symbol) + Len(planOut.expiry) + 1] = "C"
    /\ \E r1, r2 \in ChainRequests[1].rows :
          /\ r1.expiration = r2.expiration /\ ShortDate(r1.expiration) = planOut.expiry
          /\ r1.type = "calls" /\ r1.strike = planOut.strike
          /\ r2.type = "puts" /\ r2.strike # r1.strike

\* the request is the market order for the day of the parsed command
OrderOfCommand(ev) ==
    /\ ev.e = "place_order"
    /\ ev.type = "market" /\ ev.time_in_force = "day"
    /\ ev.side = Parsed[1]
    /\ ev.symbol = Parsed[2]
    /\ ev.qty = Parsed[3]

\* C17: when the text parses as a buy command, handle_trading_command makes no
\* position lookup and submits exactly one order: a market order for the day with
\* the parsed symbol, the parsed quantity and the side buy.  When it parses as a
\* sell command that passes the check, it makes one position lookup and then
\* submits exactly one such order with the side sell.
C17_OneOrderOfCommand ==
    Handled =>
        /\ IsBuy =>
              /\ Len(log) = 1
              /\ OrderOfCommand(log[1]) /\ log[1].side = "buy"
        /\ (IsSell /\ ~CheckRejects(log)) =>
              /\ Len(log) = 2
              /\ log[1].e = "get_position" /\ log[1].symbol = Parsed[2]
              /\ OrderOfCommand(log[2]) /\ log[2].side = "sell"

\* a sell of exactly the shares held: the lookup came first, then the one order
C17_Witness ==
    /\ Handled /\ IsSell
    /\ Len(log) = 2
    /\ log[1].e = "get_position" /\ log[1].found /\ log[1].halves = 2 * Parsed[3]
    /\ log[2].e = "place_order" /\ log[2].side = "sell" /\ log[2].time_in_force = "day"

\* the order requests of the direct path: those that no LLM request precedes
DirectOrders(l) ==
    {k \in IndicesOf(l, "place_order") : \A i \in IndicesOf(l, "llm") : k < i}

\* C18 as stated: when the direct trading command of a chat question reaches the
\* brokerage and the order request fails, call_chat returns the error record
\* {"error": message} of place_order, contacts no LLM provider and submits no
\* further order.
C18_FailedDirectOrder ==
    (Chatted /\ Len(arg) > 0 /\ Len(Parsed) > 0) =>
        \A k \in DirectOrders(log) :
            log[k].outcome \notin {"accepted", "pending_new"} =>
                /\ ret.tag = "error"
                /\ ret = trading_result
                /\ Len(Llms(log)) = 0
                /\ Len(Orders(log)) = 1

\* a key that validate_and_enrich_trade_plan reads is not in the plan
KeyMissing ==
    \/ ~({"symbol", "type"} \subseteq planIn.keys)
    \/ /\ planIn.type # "stock"
       /\ Len(ChainRequests) > 0 /\ ChainRequests[1].ok
       /\ ~({"expiry", "action", "strike"} \subseteq planIn.keys)

\* C19: if validate_and_enrich_trade_plan raises (the price or the chain is
\* unavailable, no expiry is left, no contract of the type is listed, or a key it
\* reads is missing), the trade plan is as it was given: the same keys, and every
\* field, symbol, action, quantity, type, strike and expiry among them, holds the
\* value it had before the call.
C19_PlanUnchangedOnError ==
    (Executed /\ (\/ PriceUnavailable \/ ChainUnavailable \/ NoExpiryLeft
                  \/ NoContractOfType \/ KeyMissing)) =>
        /\ planOut = planIn
        /\ SameOn({"symbol", "action", "quantity", "type", "strike", "expiry"}, planIn, planOut)

\* the expiry of the plan was not listed, a later one was, but with no contract of
\* the type: the enrichment failed after the expiry was resolved, and the plan
\* still holds the expiry it was given
C19_Witness ==
    /\ Executed
    /\ NoContractOfType
    /\ \A r \in ChainRequests[1].rows : ShortDate(r.expiration) # planIn.expiry
    /\ planOut.expiry = planIn.expiry
    /\ planOut = planIn

====
